---- MODULE Spec2Model ----
(***************************************************************************)
(* Clinic back end (routes/auth.py, users.py, patients.py, procedures.py,  *)
(* appointments.py) as a state machine over the persistent store.          *)
(*                                                                         *)
(* One action per HTTP handler.  A handler is a pure operator that maps    *)
(* the current store and the request (actor token, path id, JSON body) to  *)
(* a result record: the status code, an error tag, whether the handler     *)
(* reached db.session.commit(), and the rows as the session holds them at  *)
(* the point of return.  The action persists the session rows only when    *)
(* the handler committed.                                                  *)
(***************************************************************************)
EXTENDS Integers, Sequences, FiniteSets, TLC

VARIABLES users, tokens, patients, procedures, appointments, links, ids, last,
          inflight, iso_basic

vars == <<users, tokens, patients, procedures, appointments, links, ids, last, inflight,
         iso_basic>>

(***************************************************************************)
(* Bounds of the model.                                                    *)
(***************************************************************************)
MaxUsers == 3
MaxPatients == 2
MaxProcedures == 2
MaxAppointments == 2

(***************************************************************************)
(* JSON values of a request body.  A Python str is a sequence of one-      *)
(* character strings; every value has the same three fields so that any    *)
(* two values can be compared.                                             *)
(***************************************************************************)
Str(s) == [t |-> "str", s |-> s, n |-> 0]
Num(n) == [t |-> "num", s |-> <<>>, n |-> n]
List(s) == [t |-> "list", s |-> s, n |-> 0]
None == [t |-> "null", s |-> <<>>, n |-> 0]
True == [t |-> "bool", s |-> <<>>, n |-> 1]

IsStr(v) == v.t = "str"

\* dict.get(f): the value under key f, None when the key is absent
Get(data, f) == IF f \in DOMAIN data THEN data[f] ELSE None

\* Python truthiness of a JSON value ("if value:", "if not value:")
Truthy(v) ==
  CASE v.t = "str" -> v.s # <<>>
    [] v.t = "list" -> v.s # <<>>
    [] v.t = "num" -> v.n # 0
    [] v.t = "bool" -> v.n # 0
    [] OTHER -> FALSE

IsSpace(c) == c = " "

RECURSIVE LStrip(_)
LStrip(s) == IF s # <<>> /\ IsSpace(Head(s)) THEN LStrip(Tail(s)) ELSE s

RECURSIVE RStrip(_)
RStrip(s) ==
  IF s # <<>> /\ IsSpace(s[Len(s)]) THEN RStrip(SubSeq(s, 1, Len(s) - 1)) ELSE s

\* str.strip()
Strip(s) == RStrip(LStrip(s))

\* is_valid_string(value): isinstance(value, str) and bool(value.strip())
is_valid_string(v) == IsStr(v) /\ Strip(v.s) # <<>>

(***************************************************************************)
(* Dates.  An ISO date text is one token of the alphabet; today is fixed   *)
(* and a parsed date is the number of days it lies before today.           *)
(***************************************************************************)
DateTokens == {"D-10y", "D-17y364d", "D-18y", "D-30y", "D+1d"}

DaysAgo(tok) ==
  CASE tok = "D-10y" -> 3650
    [] tok = "D-17y364d" -> 6569
    [] tok = "D-18y" -> 6570
    [] tok = "D-30y" -> 10950
    [] tok = "D+1d" -> -1

\* parse_date(date_str): datetime.fromisoformat(date_str).date(); raises on
\* anything that is not a str holding exactly one ISO date
parse_date(v) ==
  IF IsStr(v) /\ Len(v.s) = 1 /\ v.s[1] \in DateTokens
    THEN [ok |-> TRUE, days |-> DaysAgo(v.s[1])]
    ELSE [ok |-> FALSE, days |-> 0]

\* (date.today() - d).days // 365
Age(days) == days \div 365

(***************************************************************************)
(* Tables are functions from the ids in use to rows.  Ids come from a      *)
(* per-table counter that never hands out an id twice.                     *)
(***************************************************************************)
Insert(table, id, row) == [i \in DOMAIN table \cup {id} |-> IF i = id THEN row ELSE table[i]]

Remove(table, id) == [i \in DOMAIN table \ {id} |-> table[i]]

NoRows == [i \in {} |-> None]

\* what a handler hands back: rows is the table as the session holds it
Res(status, err, commit, rows) ==
  [status |-> status, err |-> err, commit |-> commit, rows |-> rows]

\* session-per-request: rows reach the store only through db.session.commit()
Persist(r, stored) == IF r.commit THEN r.rows ELSE stored

(***************************************************************************)
(* routes/patients.py                                                      *)
(***************************************************************************)
\* the eleven required fields; nome stands for the nine fields (nome,
\* telefone, estado, cidade, bairro, cep, rua, numero) that are only
\* checked, trimmed and stored
PatientRequired == <<"cpf", "nome", "email", "data_nascimento">>

GuardianFields ==
  <<"resp_cpf", "resp_nome", "resp_data_nascimento", "resp_email", "resp_telefone">>

\* "not value or (isinstance(value, str) and not is_valid_string(value))"
MissingOrBlank(v) == ~Truthy(v) \/ (IsStr(v) /\ ~is_valid_string(v))

\* "v.strip() if isinstance(v, str) else v"
Cleaned(v) == IF IsStr(v) THEN Str(Strip(v.s)) ELSE v

Range(seq) == {seq[i] : i \in DOMAIN seq}

\* Patient.query.filter_by(<col>=value).first() is not None
PatientWith(rows, col, value) == \E i \in DOMAIN rows : rows[i][col] = value

create_patient(data) ==
  LET g(f) == Get(data, f)
      c(f) == Cleaned(g(f))
      pn == parse_date(c("data_nascimento"))
      age == Age(pn.days)
      rd == parse_date(c("resp_data_nascimento"))
      base == [cpf |-> c("cpf"), nome |-> c("nome"), email |-> c("email"),
               data_nascimento |-> pn.days,
               resp_cpf |-> None, resp_nome |-> None,
               resp_data_nascimento |-> None, resp_email |-> None,
               resp_telefone |-> None]
      minor == [base EXCEPT !.resp_cpf = c("resp_cpf"),
                            !.resp_nome = c("resp_nome"),
                            !.resp_data_nascimento = Num(rd.days),
                            !.resp_email = c("resp_email"),
                            !.resp_telefone = c("resp_telefone")]
      id == ids.patients + 1
  IN
  IF \E f \in Range(PatientRequired) : MissingOrBlank(g(f))
    THEN Res(400, "required", FALSE, patients)
  ELSE IF PatientWith(patients, "cpf", c("cpf"))
    THEN Res(400, "dup_cpf", FALSE, patients)
  ELSE IF PatientWith(patients, "email", c("email"))
    THEN Res(400, "dup_email", FALSE, patients)
  ELSE IF ~pn.ok
    THEN Res(400, "bad_date", FALSE, patients)
  ELSE IF age >= 18
    THEN Res(201, "", TRUE, Insert(patients, id, base))
  ELSE IF \E f \in Range(GuardianFields) : MissingOrBlank(g(f))
    THEN Res(400, "resp_required", FALSE, patients)
  \* {k: v.strip() ...}: a guardian value that is not a str has no strip()
  ELSE IF \E f \in Range(GuardianFields) : ~IsStr(g(f))
    THEN Res(500, "AttributeError", FALSE, patients)
  ELSE IF ~rd.ok
    THEN Res(400, "bad_resp_date", FALSE, patients)
  ELSE IF Age(rd.days) < 18
    THEN Res(400, "resp_minor", FALSE, patients)
  ELSE Res(201, "", TRUE, Insert(patients, id, minor))

\* the loop over string_fields of update_patient, from field k on; p is the
\* patient row in the session
PatientStringFields == <<"cpf", "nome", "email">>

RECURSIVE UpdatePatientStrings(_, _, _, _)
UpdatePatientStrings(id, p, data, k) ==
  IF k > Len(PatientStringFields) THEN [err |-> "", p |-> p]
  ELSE
    LET field == PatientStringFields[k]
        value == Get(data, field)
        cleaned == Cleaned(value)
        others == Insert(patients, id, p)
    IN
    IF field \notin DOMAIN data THEN UpdatePatientStrings(id, p, data, k + 1)
    ELSE IF ~is_valid_string(value) THEN [err |-> "empty", p |-> p]
    ELSE IF field \in {"cpf", "email"}
      THEN IF cleaned = p[field] THEN UpdatePatientStrings(id, p, data, k + 1)
           ELSE IF PatientWith(others, field, cleaned)
             THEN [err |-> "dup_" \o field, p |-> p]
           ELSE UpdatePatientStrings(id, [p EXCEPT ![field] = cleaned], data, k + 1)
    ELSE UpdatePatientStrings(id, [p EXCEPT ![field] = cleaned], data, k + 1)

\* "data.get('remove_responsavel') == True"
IsTrue(v) == v.t \in {"bool", "num"} /\ v.n = 1

update_patient(id, data) ==
  IF id \notin DOMAIN patients THEN Res(404, "not_found", FALSE, patients)
  ELSE
    LET s == UpdatePatientStrings(id, patients[id], data, 1)
        dn == Get(data, "data_nascimento")
        pd == parse_date(Cleaned(dn))
        p1 == IF Truthy(dn) /\ is_valid_string(dn) /\ pd.ok
                THEN [s.p EXCEPT !.data_nascimento = pd.days] ELSE s.p
        p2 == [p1 EXCEPT !.resp_cpf = None, !.resp_nome = None,
                         !.resp_data_nascimento = None, !.resp_email = None,
                         !.resp_telefone = None]
        remove == "remove_responsavel" \in DOMAIN data
                    /\ IsTrue(Get(data, "remove_responsavel"))
    IN
    IF s.err # "" THEN Res(400, s.err, FALSE, Insert(patients, id, s.p))
    ELSE IF Truthy(dn) /\ ~is_valid_string(dn)
      THEN Res(400, "empty", FALSE, Insert(patients, id, s.p))
    ELSE IF Truthy(dn) /\ ~pd.ok
      THEN Res(400, "bad_date", FALSE, Insert(patients, id, s.p))
    ELSE IF remove /\ Age(p1.data_nascimento) < 18
      THEN Res(400, "minor", FALSE, Insert(patients, id, p1))
    ELSE IF remove THEN Res(200, "", TRUE, Insert(patients, id, p2))
    ELSE Res(200, "", TRUE, Insert(patients, id, p1))

delete_patient(id) ==
  IF id \notin DOMAIN patients THEN Res(404, "not_found", FALSE, patients)
  ELSE IF \E a \in DOMAIN appointments : appointments[a].paciente_id = id
    THEN Res(400, "linked", FALSE, patients)
  ELSE Res(200, "", TRUE, Remove(patients, id))

(***************************************************************************)
(* Actors.  login issues a token that carries the user's id and role; a    *)
(* protected route reads both from the token (request.user).  Anonymous    *)
(* is a request without a valid token.                                     *)
(***************************************************************************)
ADMIN == Str(<<"admin">>)
DEFAULT == Str(<<"default">>)

Anonymous == [id |-> 0, tipo |-> None]

generate_token(id, tipo) == [id |-> id, tipo |-> tipo]

\* @auth_required: 401 before the handler runs when no valid token is sent
auth_required(actor, r, stored) ==
  IF actor = Anonymous THEN Res(401, "unauthorized", FALSE, stored) ELSE r

IsAdmin(actor) == actor.tipo = ADMIN

\* set_password stores a hash; check_password hashes and compares
Hash(s) == <<"#">> \o s

check_password(user, v) == IsStr(v) /\ user.senha = Hash(v.s)

\* User.query.filter_by(email=email).first() is not None
UserWithEmail(rows, email) == \E i \in DOMAIN rows : rows[i].email = email

(***************************************************************************)
(* routes/auth.py                                                          *)
(***************************************************************************)
register(data) ==
  LET g(f) == Get(data, f)
      tipo_cleaned == Cleaned(g("tipo"))
      user == [email |-> Cleaned(g("email")), nome |-> Cleaned(g("nome")),
               tipo |-> tipo_cleaned, senha |-> Hash(g("senha").s)]
  IN
  IF \E f \in {"email", "nome", "tipo", "senha"} : ~is_valid_string(g(f))
    THEN Res(400, "required", FALSE, users)
  ELSE IF tipo_cleaned \notin {ADMIN, DEFAULT}
    THEN Res(400, "bad_tipo", FALSE, users)
  ELSE IF UserWithEmail(users, Cleaned(g("email")))
    THEN Res(400, "dup_email", FALSE, users)
  ELSE Res(201, "", TRUE, Insert(users, ids.users + 1, user))

\* the result's rows are the tokens in circulation
login(data) ==
  LET email == Get(data, "email")
      senha == Get(data, "senha")
      found == {i \in DOMAIN users : users[i].email = Cleaned(email)}
      id == CHOOSE i \in found : TRUE
  IN
  IF ~is_valid_string(email) \/ ~is_valid_string(senha)
    THEN Res(400, "required", FALSE, tokens)
  ELSE IF found = {} \/ ~check_password(users[id], senha)
    THEN Res(401, "bad_credentials", FALSE, tokens)
  ELSE Res(200, "", TRUE, tokens \cup {generate_token(id, users[id].tipo)})

(***************************************************************************)
(* routes/users.py                                                         *)
(***************************************************************************)
\* create_user without the lookup of the email among the stored users
create_user_no_email_lookup(actor, data) ==
  LET g(f) == Get(data, f)
      tipo == IF "tipo" \in DOMAIN data THEN g("tipo") ELSE DEFAULT
      user == [email |-> Cleaned(g("email")), nome |-> Cleaned(g("nome")),
               tipo |-> Cleaned(tipo), senha |-> Hash(Strip(g("senha").s))]
  IN
  IF ~IsAdmin(actor) THEN Res(403, "forbidden", FALSE, users)
  ELSE IF ~is_valid_string(g("email")) \/ ~is_valid_string(g("nome"))
            \/ ~is_valid_string(tipo) \/ ~is_valid_string(g("senha"))
    THEN Res(400, "required", FALSE, users)
  ELSE IF Cleaned(tipo) \notin {ADMIN, DEFAULT}
    THEN Res(400, "bad_tipo", FALSE, users)
  ELSE Res(201, "", TRUE, Insert(users, ids.users + 1, user))

create_user(actor, data) ==
  LET g(f) == Get(data, f)
      tipo == IF "tipo" \in DOMAIN data THEN g("tipo") ELSE DEFAULT
      user == [email |-> Cleaned(g("email")), nome |-> Cleaned(g("nome")),
               tipo |-> Cleaned(tipo), senha |-> Hash(Strip(g("senha").s))]
  IN
  IF ~IsAdmin(actor) THEN Res(403, "forbidden", FALSE, users)
  ELSE IF ~is_valid_string(g("email")) \/ ~is_valid_string(g("nome"))
            \/ ~is_valid_string(tipo) \/ ~is_valid_string(g("senha"))
    THEN Res(400, "required", FALSE, users)
  ELSE IF Cleaned(tipo) \notin {ADMIN, DEFAULT}
    THEN Res(400, "bad_tipo", FALSE, users)
  ELSE IF UserWithEmail(users, Cleaned(g("email")))
    THEN Res(400, "dup_email", FALSE, users)
  ELSE Res(201, "", TRUE, Insert(users, ids.users + 1, user))

update_user(actor, id, data) ==
  IF id \notin DOMAIN users THEN Res(404, "not_found", FALSE, users)
  ELSE
    LET nome == Get(data, "nome")
        email == Get(data, "email")
        u0 == users[id]
        u1 == IF email # None /\ Cleaned(email) # u0.email
                THEN [u0 EXCEPT !.email = Cleaned(email)] ELSE u0
        u2 == IF nome # None THEN [u1 EXCEPT !.nome = Cleaned(nome)] ELSE u1
    IN
    IF ~IsAdmin(actor) /\ actor.id # id THEN Res(403, "forbidden", FALSE, users)
    ELSE IF email # None /\ ~is_valid_string(email)
      THEN Res(400, "empty", FALSE, users)
    ELSE IF email # None /\ Cleaned(email) # u0.email
              /\ UserWithEmail(users, Cleaned(email))
      THEN Res(400, "dup_email", FALSE, users)
    ELSE IF nome # None /\ ~is_valid_string(nome)
      THEN Res(400, "empty", FALSE, Insert(users, id, u1))
    ELSE Res(200, "", TRUE, Insert(users, id, u2))

delete_user(actor, id) ==
  IF id \notin DOMAIN users THEN Res(404, "not_found", FALSE, users)
  ELSE IF ~IsAdmin(actor) THEN Res(403, "forbidden", FALSE, users)
  ELSE IF \E a \in DOMAIN appointments : appointments[a].usuario_id = id
    THEN Res(400, "linked", FALSE, users)
  ELSE Res(200, "", TRUE, Remove(users, id))

reset_password(actor, id, data) ==
  LET new == Get(data, "senha") IN
  IF ~IsAdmin(actor) THEN Res(403, "forbidden", FALSE, users)
  ELSE IF ~is_valid_string(new) THEN Res(400, "required", FALSE, users)
  ELSE IF id \notin DOMAIN users THEN Res(404, "not_found", FALSE, users)
  ELSE Res(200, "", TRUE,
           Insert(users, id, [users[id] EXCEPT !.senha = Hash(Strip(new.s))]))

change_password(actor, data) ==
  LET old == Get(data, "senha_antiga")
      new == Get(data, "senha_nova")
  IN
  IF ~is_valid_string(old) \/ ~is_valid_string(new)
    THEN Res(400, "required", FALSE, users)
  ELSE IF actor.id \notin DOMAIN users THEN Res(404, "not_found", FALSE, users)
  ELSE IF ~check_password(users[actor.id], Cleaned(old))
    THEN Res(400, "bad_old", FALSE, users)
  ELSE Res(200, "", TRUE,
           Insert(users, actor.id,
                  [users[actor.id] EXCEPT !.senha = Hash(Strip(new.s))]))

\* get_by_email against the user rows given
get_by_email_in(rows, actor, args) ==
  LET email == Get(args, "email")
      found == {i \in DOMAIN rows : rows[i].email = Cleaned(email)}
  IN
  IF ~is_valid_string(email) THEN Res(400, "required", FALSE, rows)
  ELSE IF found = {} THEN Res(404, "not_found", FALSE, rows)
  ELSE IF ~IsAdmin(actor) /\ actor.id \notin found
    THEN Res(403, "forbidden", FALSE, rows)
  ELSE Res(200, "", FALSE, rows)

get_by_email(actor, args) == get_by_email_in(users, actor, args)

(***************************************************************************)
(* routes/procedures.py                                                    *)
(***************************************************************************)
\* decimal texts of the alphabet and the number each one denotes
\* the floats that are no finite number
NaN == 999999
Inf == 1000000
NegInf == -1000000

IsFinite(x) == x \notin {NaN, Inf, NegInf}

\* float addition
FAdd(a, b) ==
  IF a = NaN \/ b = NaN \/ {a, b} = {Inf, NegInf} THEN NaN
  ELSE IF Inf \in {a, b} THEN Inf
  ELSE IF NegInf \in {a, b} THEN NegInf
  ELSE a + b

NumberTokens == {"1", "2", "3", "nan", "inf", "-inf"}

Denotes(tok) ==
  CASE tok = "1" -> 1 [] tok = "2" -> 2 [] tok = "3" -> 3
    [] tok = "nan" -> NaN [] tok = "inf" -> Inf [] tok = "-inf" -> NegInf

\* float(value): a number, or a str that (trimmed) is the text of a float,
\* "nan", "inf" and "-inf" included; ValueError or TypeError otherwise
ToNumber(v) ==
  IF v.t \in {"num", "bool"} THEN [ok |-> TRUE, val |-> v.n]
  ELSE IF IsStr(v) /\ Len(Strip(v.s)) = 1 /\ Strip(v.s)[1] \in NumberTokens
    THEN [ok |-> TRUE, val |-> Denotes(Strip(v.s)[1])]
  ELSE [ok |-> FALSE, val |-> 0]

\* Procedure.query.filter_by(nome=nome).first() is not None
ProcedureNamed(rows, nome) == \E i \in DOMAIN rows : rows[i].nome = nome

create_procedure(actor, data) ==
  LET g(f) == Get(data, f)
      nome == Cleaned(g("nome"))
      vp == ToNumber(g("valor_plano"))
      vq == ToNumber(g("valor_particular"))
      proc == [nome |-> nome, descricao |-> Cleaned(g("descricao")),
               valor_plano |-> vp.val, valor_particular |-> vq.val]
  IN
  IF ~IsAdmin(actor) THEN Res(403, "forbidden", FALSE, procedures)
  ELSE IF ~is_valid_string(g("nome")) \/ ~is_valid_string(g("descricao"))
    THEN Res(400, "required", FALSE, procedures)
  ELSE IF g("valor_plano") = None \/ g("valor_particular") = None
    THEN Res(400, "required", FALSE, procedures)
  ELSE IF ProcedureNamed(procedures, nome)
    THEN Res(400, "dup_nome", FALSE, procedures)
  ELSE IF ~vp.ok \/ ~vq.ok
    THEN Res(400, "bad_number", FALSE, procedures)
  ELSE Res(201, "", TRUE, Insert(procedures, ids.procedures + 1, proc))

\* the loop over fields_to_validate of update_procedure, from field k on;
\* p is the procedure row in the session
ProcedureOtherFields == <<"descricao", "valor_plano", "valor_particular">>

RECURSIVE UpdateProcedureFields(_, _, _)
UpdateProcedureFields(p, data, k) ==
  IF k > Len(ProcedureOtherFields) THEN [err |-> "", p |-> p]
  ELSE
    LET field == ProcedureOtherFields[k]
        value == Get(data, field)
        num == ToNumber(value)
    IN
    IF field \notin DOMAIN data THEN UpdateProcedureFields(p, data, k + 1)
    ELSE IF field = "descricao"
      THEN IF ~is_valid_string(value) THEN [err |-> "empty", p |-> p]
           ELSE UpdateProcedureFields([p EXCEPT ![field] = Cleaned(value)], data, k + 1)
    ELSE IF ~num.ok THEN [err |-> "bad_number", p |-> p]
    ELSE IF ~IsFinite(num.val) THEN [err |-> "not_finite", p |-> p]
    ELSE UpdateProcedureFields([p EXCEPT ![field] = num.val], data, k + 1)

update_procedure(actor, id, data) ==
  IF ~IsAdmin(actor) THEN Res(403, "forbidden", FALSE, procedures)
  ELSE IF id \notin DOMAIN procedures THEN Res(404, "not_found", FALSE, procedures)
  ELSE
    LET p0 == procedures[id]
        rename == "nome" \in DOMAIN data /\ data["nome"] # p0.nome
        new_nome == Cleaned(Get(data, "nome"))
        p1 == IF rename THEN [p0 EXCEPT !.nome = new_nome] ELSE p0
        s == UpdateProcedureFields(p1, data, 1)
    IN
    IF rename /\ ~is_valid_string(data["nome"])
      THEN Res(400, "empty", FALSE, procedures)
    ELSE IF rename /\ ProcedureNamed(procedures, new_nome)
      THEN Res(400, "dup_nome", FALSE, procedures)
    ELSE IF s.err # "" THEN Res(400, s.err, FALSE, Insert(procedures, id, s.p))
    ELSE Res(200, "", TRUE, Insert(procedures, id, s.p))

\* delete_procedure open to every authenticated user, as delete_patient is
delete_procedure_any_user(actor, id) ==
  IF \E l \in links : l.procedimento_id = id
    THEN Res(400, "linked", FALSE, procedures)
  ELSE IF id \notin DOMAIN procedures THEN Res(404, "not_found", FALSE, procedures)
  ELSE Res(200, "", TRUE, Remove(procedures, id))

delete_procedure(actor, id) ==
  IF ~IsAdmin(actor) THEN Res(403, "forbidden", FALSE, procedures)
  ELSE IF \E l \in links : l.procedimento_id = id
    THEN Res(400, "linked", FALSE, procedures)
  ELSE IF id \notin DOMAIN procedures THEN Res(404, "not_found", FALSE, procedures)
  ELSE Res(200, "", TRUE, Remove(procedures, id))

(***************************************************************************)
(* routes/appointments.py                                                  *)
(***************************************************************************)
PLANO == Str(<<"plano">>)
PARTICULAR == Str(<<"particular">>)

\* ISO date-time texts of the alphabet and the instant each one denotes
\* The texts of dates and times a request can carry:
\*   T1 "2024-01-01T09:00:00"   T2 "2024-01-01T23:59:59"
\*   T3 "2024-01-02T00:00:00"   D1 "2024-01-01"   D2 "2024-01-02"
\*   B1 "20240101" (the basic format, without separators)
DateTimeTokens == {"T1", "T2", "T3", "D1", "D2", "B1"}

SecondsPerDay == 86400

\* the datetime a text denotes, in seconds since 2024-01-01T00:00:00
Instant(tok) ==
  CASE tok = "T1" -> 32400 [] tok = "T2" -> 86399 [] tok = "T3" -> 86400
    [] tok = "D1" -> 0 [] tok = "D2" -> 86400 [] tok = "B1" -> 0

\* len(text)
IsoLen(tok) ==
  CASE tok \in {"T1", "T2", "T3"} -> 19 [] tok \in {"D1", "D2"} -> 10 [] tok = "B1" -> 8

\* datetime.fromisoformat(text); raises on anything else.  The basic format
\* is accepted by the interpreters from 3.11 on only: iso_basic tells which
\* kind runs the program.
parse_datetime(v) ==
  IF IsStr(v) /\ Len(v.s) = 1 /\ v.s[1] \in DateTimeTokens /\ (v.s[1] = "B1" => iso_basic)
    THEN [ok |-> TRUE, at |-> Instant(v.s[1])]
    ELSE [ok |-> FALSE, at |-> 0]

\* e.replace(hour=23, minute=59, second=59)
EndOfDay(at) == (at \div SecondsPerDay) * SecondsPerDay + (SecondsPerDay - 1)

\* the total taken from valor_particular whatever the tipo
RECURSIVE calc_valor_total_particular_only(_, _)
calc_valor_total_particular_only(proc_objs, tipo) ==
  IF proc_objs = <<>> THEN 0
  ELSE FAdd(calc_valor_total_particular_only(SubSeq(proc_objs, 1, Len(proc_objs) - 1),
                                            tipo),
            proc_objs[Len(proc_objs)].valor_particular)

RECURSIVE calc_valor_total(_, _)
calc_valor_total(proc_objs, tipo) ==
  IF proc_objs = <<>> THEN 0
  ELSE FAdd(calc_valor_total(SubSeq(proc_objs, 1, Len(proc_objs) - 1), tipo),
            IF tipo = PLANO THEN proc_objs[Len(proc_objs)].valor_plano
            ELSE proc_objs[Len(proc_objs)].valor_particular)

\* the loop "for pid in proc_ids": the procedures resolved before the first
\* element that is no integer (400) or names no procedure (404)
RECURSIVE ResolveProcedures(_, _, _)
ResolveProcedures(proc_ids, k, found) ==
  IF k > Len(proc_ids) THEN [status |-> 0, pids |-> found]
  ELSE
    LET pid == ToNumber(proc_ids[k]) IN
    IF ~pid.ok THEN [status |-> 400, pids |-> found]
    ELSE IF pid.val \notin DOMAIN procedures THEN [status |-> 404, pids |-> found]
    ELSE ResolveProcedures(proc_ids, k + 1, Append(found, pid.val))

\* the join rows AppointmentProcedure(atendimento_id, procedimento_id)
LinkRows(ap_id, pids) ==
  {[atendimento_id |-> ap_id, procedimento_id |-> pids[i]] : i \in DOMAIN pids}

LinksOf(rows, ap_id) == {l \in rows : l.atendimento_id = ap_id}

\* a join row has no identity beyond its pair: adding one pair twice fails
\* at flush
HasDuplicate(pids) == \E i, j \in DOMAIN pids : i # j /\ pids[i] = pids[j]

RECURSIVE SetToSeq(_)
SetToSeq(S) ==
  IF S = {} THEN <<>> ELSE LET x == CHOOSE y \in S : TRUE IN <<x>> \o SetToSeq(S \ {x})

\* [ap_proc.procedimento for ap_proc in ap.procedimentos_vinculados]
LinkedProcedures(rows, ap_id) ==
  LET ls == SetToSeq(LinksOf(rows, ap_id)) IN
  [i \in DOMAIN ls |-> procedures[ls[i].procedimento_id]]

ProcObjs(pids) == [i \in DOMAIN pids |-> procedures[pids[i]]]

\* Patient.query.get(id)
PatientGet(v) == v.t = "num" /\ v.n \in DOMAIN patients

Store(aps, lks) == [appointments |-> aps, links |-> lks]

create_appointment(actor, data) ==
  LET g(f) == Get(data, f)
      tipo == g("tipo")
      dh == parse_datetime(g("data_hora"))
      proc_ids == g("procedimentos")
      res == ResolveProcedures(proc_ids.s, 1, <<>>)
      numero_carteira == g("numero_carteira")
      id == ids.appointments + 1
      ap == [data_hora |-> dh.at, tipo |-> Cleaned(tipo),
             numero_carteira |-> IF tipo = PLANO THEN Cleaned(numero_carteira) ELSE None,
             valor_total |-> calc_valor_total(ProcObjs(res.pids), tipo),
             usuario_id |-> actor.id, paciente_id |-> g("paciente_id").n]
      old == Store(appointments, links)
  IN
  IF \E f \in {"data_hora", "paciente_id", "procedimentos", "tipo"} : g(f) = None
    THEN Res(400, "required", FALSE, old)
  ELSE IF ~is_valid_string(tipo) \/ tipo \notin {PLANO, PARTICULAR}
    THEN Res(400, "bad_tipo", FALSE, old)
  ELSE IF ~dh.ok THEN Res(400, "bad_date", FALSE, old)
  ELSE IF ~PatientGet(g("paciente_id")) THEN Res(404, "no_patient", FALSE, old)
  ELSE IF proc_ids.t # "list" \/ Len(proc_ids.s) = 0
    THEN Res(400, "no_procedures", FALSE, old)
  ELSE IF res.status # 0
    THEN Res(res.status, "bad_procedure", FALSE, old)
  ELSE IF tipo = PLANO /\ ~is_valid_string(numero_carteira)
    THEN Res(400, "no_carteira", FALSE, old)
  ELSE IF HasDuplicate(res.pids)
    THEN Res(500, "IntegrityError", FALSE, old)
  ELSE Res(201, "", TRUE,
           Store(Insert(appointments, id, ap), links \cup LinkRows(id, res.pids)))

\* "only creator or admin"
\* the creator test with the comparison turned round
MayEdit_not_creator(actor, ap) == IsAdmin(actor) \/ actor.id # ap.usuario_id

MayEdit(actor, ap) == IsAdmin(actor) \/ actor.id = ap.usuario_id

\* update_appointment with a commit right after the old join rows are deleted
update_appointment_commits_after_delete(actor, id, data) ==
  IF id \notin DOMAIN appointments
    THEN Res(404, "not_found", FALSE, Store(appointments, links))
  ELSE
    LET g(f) == Get(data, f)
        ap0 == appointments[id]
        S(ap, lks) == Store(Insert(appointments, id, ap), lks)
        \* data_hora
        dhv == g("data_hora")
        dh == parse_datetime(Cleaned(dhv))
        ap1 == IF Truthy(dhv) THEN [ap0 EXCEPT !.data_hora = dh.at] ELSE ap0
        \* paciente_id
        pv == g("paciente_id")
        ap2 == IF Truthy(pv) THEN [ap1 EXCEPT !.paciente_id = pv.n] ELSE ap1
        \* procedimentos
        proc_ids == g("procedimentos")
        procedimentos_changed == proc_ids # None
        res == ResolveProcedures(proc_ids.s, 1, <<>>)
        cleared == links \ LinksOf(links, id)
        lks1 == IF procedimentos_changed
                  THEN cleared \cup LinkRows(id, res.pids) ELSE links
        \* tipo
        tipo == g("tipo")
        ap3 == IF Truthy(tipo) THEN [ap2 EXCEPT !.tipo = Cleaned(tipo)] ELSE ap2
        \* numero_carteira
        nc == g("numero_carteira")
        ap4 == IF nc = None THEN ap3
               ELSE IF ~is_valid_string(nc) THEN [ap3 EXCEPT !.numero_carteira = None]
               ELSE [ap3 EXCEPT !.numero_carteira = Cleaned(nc)]
        \* valor_total
        proc_objs == IF procedimentos_changed THEN ProcObjs(res.pids)
                     ELSE LinkedProcedures(lks1, id)
        ap5 == IF procedimentos_changed \/ "tipo" \in DOMAIN data
                 THEN [ap4 EXCEPT !.valor_total = calc_valor_total(proc_objs, ap4.tipo)]
                 ELSE ap4
    IN
    IF ~MayEdit(actor, ap0) THEN Res(403, "forbidden", FALSE, S(ap0, links))
    ELSE IF Truthy(dhv) /\ ~is_valid_string(dhv)
      THEN Res(400, "empty", FALSE, S(ap0, links))
    ELSE IF Truthy(dhv) /\ ~dh.ok THEN Res(400, "bad_date", FALSE, S(ap0, links))
    ELSE IF Truthy(pv) /\ ~PatientGet(pv)
      THEN Res(404, "no_patient", FALSE, S(ap1, links))
    ELSE IF procedimentos_changed /\ (proc_ids.t # "list" \/ Len(proc_ids.s) = 0)
      THEN Res(400, "no_procedures", FALSE, S(ap2, links))
    ELSE IF procedimentos_changed /\ res.status # 0
      THEN Res(res.status, "bad_procedure", TRUE, S(ap2, cleared))
    ELSE IF Truthy(tipo) /\ (~is_valid_string(tipo) \/ tipo \notin {PLANO, PARTICULAR})
      THEN Res(400, "bad_tipo", procedimentos_changed, S(ap2, cleared))
    ELSE IF ap4.tipo = PLANO /\ ~Truthy(ap4.numero_carteira)
      THEN Res(400, "no_carteira", procedimentos_changed, S(ap2, cleared))
    ELSE IF procedimentos_changed /\ HasDuplicate(res.pids)
      THEN Res(500, "IntegrityError", FALSE, S(ap5, lks1))
    ELSE Res(200, "", TRUE, S(ap5, lks1))

update_appointment(actor, id, data) ==
  IF id \notin DOMAIN appointments
    THEN Res(404, "not_found", FALSE, Store(appointments, links))
  ELSE
    LET g(f) == Get(data, f)
        ap0 == appointments[id]
        S(ap, lks) == Store(Insert(appointments, id, ap), lks)
        \* data_hora
        dhv == g("data_hora")
        dh == parse_datetime(Cleaned(dhv))
        ap1 == IF Truthy(dhv) THEN [ap0 EXCEPT !.data_hora = dh.at] ELSE ap0
        \* paciente_id
        pv == g("paciente_id")
        ap2 == IF Truthy(pv) THEN [ap1 EXCEPT !.paciente_id = pv.n] ELSE ap1
        \* procedimentos
        proc_ids == g("procedimentos")
        procedimentos_changed == proc_ids # None
        res == ResolveProcedures(proc_ids.s, 1, <<>>)
        cleared == links \ LinksOf(links, id)
        lks1 == IF procedimentos_changed
                  THEN cleared \cup LinkRows(id, res.pids) ELSE links
        \* tipo
        tipo == g("tipo")
        ap3 == IF Truthy(tipo) THEN [ap2 EXCEPT !.tipo = Cleaned(tipo)] ELSE ap2
        \* numero_carteira
        nc == g("numero_carteira")
        ap4 == IF nc = None THEN ap3
               ELSE IF ~is_valid_string(nc) THEN [ap3 EXCEPT !.numero_carteira = None]
               ELSE [ap3 EXCEPT !.numero_carteira = Cleaned(nc)]
        \* valor_total
        proc_objs == IF procedimentos_changed THEN ProcObjs(res.pids)
                     ELSE LinkedProcedures(lks1, id)
        ap5 == IF procedimentos_changed \/ "tipo" \in DOMAIN data
                 THEN [ap4 EXCEPT !.valor_total = calc_valor_total(proc_objs, ap4.tipo)]
                 ELSE ap4
    IN
    IF ~MayEdit(actor, ap0) THEN Res(403, "forbidden", FALSE, S(ap0, links))
    ELSE IF Truthy(dhv) /\ ~is_valid_string(dhv)
      THEN Res(400, "empty", FALSE, S(ap0, links))
    ELSE IF Truthy(dhv) /\ ~dh.ok THEN Res(400, "bad_date", FALSE, S(ap0, links))
    ELSE IF Truthy(pv) /\ ~PatientGet(pv)
      THEN Res(404, "no_patient", FALSE, S(ap1, links))
    ELSE IF procedimentos_changed /\ (proc_ids.t # "list" \/ Len(proc_ids.s) = 0)
      THEN Res(400, "no_procedures", FALSE, S(ap2, links))
    ELSE IF procedimentos_changed /\ res.status # 0
      THEN Res(res.status, "bad_procedure", FALSE, S(ap2, lks1))
    ELSE IF Truthy(tipo) /\ (~is_valid_string(tipo) \/ tipo \notin {PLANO, PARTICULAR})
      THEN Res(400, "bad_tipo", FALSE, S(ap2, lks1))
    ELSE IF ap4.tipo = PLANO /\ ~Truthy(ap4.numero_carteira)
      THEN Res(400, "no_carteira", FALSE, S(ap4, lks1))
    ELSE IF procedimentos_changed /\ HasDuplicate(res.pids)
      THEN Res(500, "IntegrityError", FALSE, S(ap5, lks1))
    ELSE Res(200, "", TRUE, S(ap5, lks1))

delete_appointment(actor, id) ==
  IF id \notin DOMAIN appointments
    THEN Res(404, "not_found", FALSE, Store(appointments, links))
  ELSE IF ~MayEdit(actor, appointments[id])
    THEN Res(403, "forbidden", FALSE, Store(appointments, links))
  ELSE Res(200, "", TRUE,
           Store(Remove(appointments, id), links \ LinksOf(links, id)))

\* order_by(Appointment.data_hora) over the appointments in S
RECURSIVE OrderByDataHora(_)
OrderByDataHora(S) ==
  IF S = {} THEN <<>>
  ELSE LET a == CHOOSE x \in S : \A y \in S :
                  \/ appointments[x].data_hora < appointments[y].data_hora
                  \/ appointments[x].data_hora = appointments[y].data_hora /\ x <= y
       IN <<a>> \o OrderByDataHora(S \ {a})

\* the page handed back for an ordered query: the first page, which holds
\* every row of a query that has no more rows than a page
paginate_query(query) == query

list_between_dates(args) ==
  LET start == Get(args, "start")
      end == Get(args, "end")
      s == parse_datetime(Cleaned(start))
      e == parse_datetime(Cleaned(end))
      e2 == IF IsoLen(Strip(end.s)[1]) = 10 THEN EndOfDay(e.at) ELSE e.at
  IN
  IF ~is_valid_string(start) \/ ~is_valid_string(end)
    THEN Res(400, "required", FALSE, <<>>)
  ELSE IF ~s.ok \/ ~e.ok THEN Res(400, "bad_date", FALSE, <<>>)
  ELSE Res(200, "", FALSE,
           paginate_query(OrderByDataHora(
             {a \in DOMAIN appointments :
                /\ appointments[a].data_hora >= s.at
                /\ appointments[a].data_hora <= e2})))

(***************************************************************************)
(* Requests.  Each action is one request served to its response: last is   *)
(* the request and the status it got.  A request that would take a table   *)
(* past its bound is not issued.                                           *)
(***************************************************************************)
\* the requests being handled at the same time, each by its own worker with
\* its own session; a request is in flight between its duplicate lookup and
\* its commit
Workers == {1, 2}
Idle == [pc |-> "idle"]
NoRequests == [w \in Workers |-> Idle]

NoBody == [k \in {} |-> None]

Last(op, actor, id, data, r) ==
  [op |-> op, actor |-> actor, id |-> id, data |-> data,
   status |-> r.status, err |-> r.err]

Bump(r, table) == IF r.commit THEN [ids EXCEPT ![table] = @ + 1] ELSE ids

Register(data) ==
  LET r == register(data) IN
  /\ r.commit => ids.users < MaxUsers
  /\ users' = Persist(r, users)
  /\ ids' = Bump(r, "users")
  /\ last' = Last("register", Anonymous, 0, data, r)
  /\ UNCHANGED <<inflight, iso_basic>>
  /\ UNCHANGED <<tokens, patients, procedures, appointments, links>>

Login(data) ==
  LET r == login(data) IN
  /\ tokens' = Persist(r, tokens)
  /\ last' = Last("login", Anonymous, 0, data, r)
  /\ UNCHANGED <<inflight, iso_basic>>
  /\ UNCHANGED <<users, patients, procedures, appointments, links, ids>>

CreateUser(actor, data) ==
  LET r == auth_required(actor, create_user(actor, data), users) IN
  /\ r.commit => ids.users < MaxUsers
  /\ users' = Persist(r, users)
  /\ ids' = Bump(r, "users")
  /\ last' = Last("create_user", actor, 0, data, r)
  /\ UNCHANGED <<inflight, iso_basic>>
  /\ UNCHANGED <<tokens, patients, procedures, appointments, links>>

UpdateUser(actor, id, data) ==
  LET r == auth_required(actor, update_user(actor, id, data), users) IN
  /\ users' = Persist(r, users)
  /\ last' = Last("update_user", actor, id, data, r)
  /\ UNCHANGED <<inflight, iso_basic>>
  /\ UNCHANGED <<tokens, patients, procedures, appointments, links, ids>>

DeleteUser(actor, id) ==
  LET r == auth_required(actor, delete_user(actor, id), users) IN
  /\ users' = Persist(r, users)
  /\ last' = Last("delete_user", actor, id, NoBody, r)
  /\ UNCHANGED <<inflight, iso_basic>>
  /\ UNCHANGED <<tokens, patients, procedures, appointments, links, ids>>

ResetPassword(actor, id, data) ==
  LET r == auth_required(actor, reset_password(actor, id, data), users) IN
  /\ users' = Persist(r, users)
  /\ last' = Last("reset_password", actor, id, data, r)
  /\ UNCHANGED <<inflight, iso_basic>>
  /\ UNCHANGED <<tokens, patients, procedures, appointments, links, ids>>

ChangePassword(actor, data) ==
  LET r == auth_required(actor, change_password(actor, data), users) IN
  /\ users' = Persist(r, users)
  /\ last' = Last("change_password", actor, 0, data, r)
  /\ UNCHANGED <<inflight, iso_basic>>
  /\ UNCHANGED <<tokens, patients, procedures, appointments, links, ids>>

GetByEmail(actor, args) ==
  LET r == auth_required(actor, get_by_email(actor, args), users) IN
  /\ last' = Last("get_by_email", actor, 0, args, r)
  /\ UNCHANGED <<users, tokens, patients, procedures, appointments, links, ids>>
  /\ UNCHANGED <<inflight, iso_basic>>

CreatePatient(actor, data) ==
  LET r == auth_required(actor, create_patient(data), patients) IN
  /\ r.commit => ids.patients < MaxPatients
  /\ patients' = Persist(r, patients)
  /\ ids' = Bump(r, "patients")
  /\ last' = Last("create_patient", actor, 0, data, r)
  /\ UNCHANGED <<inflight, iso_basic>>
  /\ UNCHANGED <<users, tokens, procedures, appointments, links>>

UpdatePatient(actor, id, data) ==
  LET r == auth_required(actor, update_patient(id, data), patients) IN
  /\ patients' = Persist(r, patients)
  /\ last' = Last("update_patient", actor, id, data, r)
  /\ UNCHANGED <<inflight, iso_basic>>
  /\ UNCHANGED <<users, tokens, procedures, appointments, links, ids>>

DeletePatient(actor, id) ==
  LET r == auth_required(actor, delete_patient(id), patients) IN
  /\ patients' = Persist(r, patients)
  /\ last' = Last("delete_patient", actor, id, NoBody, r)
  /\ UNCHANGED <<inflight, iso_basic>>
  /\ UNCHANGED <<users, tokens, procedures, appointments, links, ids>>

\* the store's unique constraints on patient.cpf and patient.email refuse
\* the insert of row
UniqueViolation(rows, row) ==
  PatientWith(rows, "cpf", row.cpf) \/ PatientWith(rows, "email", row.email)

\* create_patient up to db.session.add: the validations and the duplicate
\* lookups read the committed rows; a request that fails them is answered
\* at once, one that passes them holds its new row in its session
BeginCreatePatient(w, actor, data) ==
  LET r == auth_required(actor, create_patient(data), patients) IN
  /\ inflight[w].pc # "add"
  /\ inflight' = [inflight EXCEPT ![w] =
       IF r.commit
         THEN [pc |-> "add", actor |-> actor, data |-> data,
               row |-> r.rows[ids.patients + 1]]
         ELSE [pc |-> "done", data |-> data, status |-> r.status, err |-> r.err]]
  /\ last' = IF r.commit THEN last ELSE Last("create_patient", actor, 0, data, r)
  /\ UNCHANGED <<users, tokens, patients, procedures, appointments, links, ids>>
  /\ UNCHANGED iso_basic

\* db.session.commit() of create_patient: the insert reaches the store, and
\* the IntegrityError of a refused insert is caught nowhere in the handler
CommitCreatePatient(w) ==
  LET q == inflight[w]
      r == IF UniqueViolation(patients, q.row)
             THEN Res(500, "IntegrityError", FALSE, patients)
             ELSE Res(201, "", TRUE, Insert(patients, ids.patients + 1, q.row))
  IN
  /\ q.pc = "add"
  /\ r.commit => ids.patients < MaxPatients
  /\ patients' = Persist(r, patients)
  /\ ids' = Bump(r, "patients")
  /\ inflight' = [inflight EXCEPT ![w] =
       [pc |-> "done", data |-> q.data, status |-> r.status, err |-> r.err]]
  /\ last' = Last("create_patient", q.actor, 0, q.data, r)
  /\ UNCHANGED <<users, tokens, procedures, appointments, links, iso_basic>>

CreateProcedure(actor, data) ==
  LET r == auth_required(actor, create_procedure(actor, data), procedures) IN
  /\ r.commit => ids.procedures < MaxProcedures
  /\ procedures' = Persist(r, procedures)
  /\ ids' = Bump(r, "procedures")
  /\ last' = Last("create_procedure", actor, 0, data, r)
  /\ UNCHANGED <<inflight, iso_basic>>
  /\ UNCHANGED <<users, tokens, patients, appointments, links>>

UpdateProcedure(actor, id, data) ==
  LET r == auth_required(actor, update_procedure(actor, id, data), procedures) IN
  /\ procedures' = Persist(r, procedures)
  /\ last' = Last("update_procedure", actor, id, data, r)
  /\ UNCHANGED <<inflight, iso_basic>>
  /\ UNCHANGED <<users, tokens, patients, appointments, links, ids>>

DeleteProcedure(actor, id) ==
  LET r == auth_required(actor, delete_procedure(actor, id), procedures) IN
  /\ procedures' = Persist(r, procedures)
  /\ last' = Last("delete_procedure", actor, id, NoBody, r)
  /\ UNCHANGED <<inflight, iso_basic>>
  /\ UNCHANGED <<users, tokens, patients, appointments, links, ids>>

CreateAppointment(actor, data) ==
  LET old == Store(appointments, links)
      r == auth_required(actor, create_appointment(actor, data), old)
  IN
  /\ r.commit => ids.appointments < MaxAppointments
  /\ appointments' = Persist(r, old).appointments
  /\ links' = Persist(r, old).links
  /\ ids' = Bump(r, "appointments")
  /\ last' = Last("create_appointment", actor, 0, data, r)
  /\ UNCHANGED <<inflight, iso_basic>>
  /\ UNCHANGED <<users, tokens, patients, procedures>>

UpdateAppointment(actor, id, data) ==
  LET old == Store(appointments, links)
      r == auth_required(actor, update_appointment(actor, id, data), old)
  IN
  /\ appointments' = Persist(r, old).appointments
  /\ links' = Persist(r, old).links
  /\ last' = Last("update_appointment", actor, id, data, r)
  /\ UNCHANGED <<inflight, iso_basic>>
  /\ UNCHANGED <<users, tokens, patients, procedures, ids>>

DeleteAppointment(actor, id) ==
  LET old == Store(appointments, links)
      r == auth_required(actor, delete_appointment(actor, id), old)
  IN
  /\ appointments' = Persist(r, old).appointments
  /\ links' = Persist(r, old).links
  /\ last' = Last("delete_appointment", actor, id, NoBody, r)
  /\ UNCHANGED <<inflight, iso_basic>>
  /\ UNCHANGED <<users, tokens, patients, procedures, ids>>

\* GET /appointments/between: the ids of the appointments of the page, in
\* the order of the response, are recorded with the response
ListBetweenDates(actor, args) ==
  LET r == auth_required(actor, list_between_dates(args), <<>>) IN
  /\ last' = Last("list_between_dates", actor, 0, args, r) @@ [items |-> r.rows]
  /\ UNCHANGED <<users, tokens, patients, procedures, appointments, links, ids>>
  /\ UNCHANGED <<inflight, iso_basic>>

(***************************************************************************)
(* Request bodies.                                                         *)
(***************************************************************************)
Tok(x) == Str(<<x>>)
Padded(x) == Str(<<" ", x, " ">>)
Blank == Str(<<" ">>)

\* a body with key k set to v, and k left out when v is Absent
Absent == [t |-> "absent", s |-> <<>>, n |-> 0]
Field(k, v) == IF v = Absent THEN NoBody ELSE (k :> v)

GuardianBody(cpf, nome, nasc, email, telefone) ==
  Field("resp_cpf", cpf) @@ Field("resp_nome", nome)
    @@ Field("resp_data_nascimento", nasc) @@ Field("resp_email", email)
    @@ Field("resp_telefone", telefone)

GoodGuardian == GuardianBody(Tok("rc"), Tok("rn"), Tok("D-30y"), Tok("re"), Tok("rt"))

\* ways a guardian field can be unusable: left out, blank, not a str
Defects == {Absent, Blank, Num(7)}

GuardianBodies ==
  {NoBody, GoodGuardian}
    \cup {[GoodGuardian EXCEPT !["resp_data_nascimento"] = d] :
            d \in {Tok("D-18y"), Tok("D-17y364d"), Tok("x"), Padded("D-30y")}}
    \cup {GuardianBody(d, Tok("rn"), Tok("D-30y"), Tok("re"), Tok("rt")) : d \in {Absent}}
    \cup {GuardianBody(Tok("rc"), d, Tok("D-30y"), Tok("re"), Tok("rt")) : d \in {Blank}}
    \cup {GuardianBody(Tok("rc"), Tok("rn"), d, Tok("re"), Tok("rt")) : d \in {Absent}}
    \cup {GuardianBody(Tok("rc"), Tok("rn"), Tok("D-30y"), d, Tok("rt")) : d \in {None}}
    \cup {GuardianBody(Tok("rc"), Tok("rn"), Tok("D-30y"), Tok("re"), d) : d \in Defects}

PatientBase(cpf, email, nasc) ==
  Field("cpf", cpf) @@ Field("nome", Tok("n")) @@ Field("email", email)
    @@ Field("data_nascimento", nasc)

BirthTexts ==
  {Tok("D-10y"), Tok("D-17y364d"), Tok("D-18y"), Tok("D-30y"), Padded("D-10y"), Tok("x")}

\* bodies of POST /patients/ that exercise the guardian rule
GuardianCreateBodies ==
  {PatientBase(Tok("c1"), Tok("e1"), b) @@ g : b \in BirthTexts, g \in GuardianBodies}
    \cup {PatientBase(Tok("c2"), Tok("e2"), Tok("D-30y")),
          PatientBase(Tok("c2"), Tok("e2"), Tok("D-10y")) @@ GoodGuardian}

\* bodies of PUT /patients/<id> that move the birth date or drop the guardian
GuardianUpdateBodies ==
  {Field("data_nascimento", b) @@ Field("remove_responsavel", rr) :
     b \in {Absent, Tok("D-10y"), Tok("D-30y"), Tok("x")}, rr \in {Absent, True}}
    \cup {Field("cpf", Tok("c2")), Field("data_nascimento", Num(5))}

(***************************************************************************)
(* Initial stores.                                                         *)
(***************************************************************************)
Clerk == [email |-> Tok("u1"), nome |-> Tok("n"), tipo |-> DEFAULT, senha |-> Hash(<<"p">>)]

\* a store holding one logged-in default user and nothing else
InitClerk ==
  /\ users = (1 :> Clerk)
  /\ tokens = {generate_token(1, DEFAULT)}
  /\ patients = NoRows
  /\ procedures = NoRows
  /\ appointments = NoRows
  /\ links = {}
  /\ ids = [users |-> 1, patients |-> 0, procedures |-> 0, appointments |-> 0]
  /\ last = [op |-> "none", actor |-> Anonymous, id |-> 0, data |-> NoBody,
             status |-> 0, err |-> ""]
  /\ inflight = NoRequests
  /\ iso_basic \in BOOLEAN

(***************************************************************************)
(* SpecPatients: create_patient and update_patient requests with bodies    *)
(* that exercise the guardian rule.                                        *)
(***************************************************************************)
NextPatients ==
  \/ \E actor \in tokens, data \in GuardianCreateBodies : CreatePatient(actor, data)
  \/ \E actor \in tokens, id \in 1..MaxPatients, data \in GuardianUpdateBodies :
       UpdatePatient(actor, id, data)

SpecPatients == InitClerk /\ [][NextPatients]_vars

(***************************************************************************)
(* SpecBilling: one user's appointment requests and the admin's procedure  *)
(* requests, from a store that already holds an admin, a default user,     *)
(* both logged in, a patient and a procedure.                              *)
(***************************************************************************)
Boss == [email |-> Tok("u1"), nome |-> Tok("n"), tipo |-> ADMIN, senha |-> Hash(<<"p">>)]
Staff == [email |-> Tok("u2"), nome |-> Tok("n"), tipo |-> DEFAULT, senha |-> Hash(<<"p">>)]

BossToken == generate_token(1, ADMIN)
StaffToken == generate_token(2, DEFAULT)

Adult ==
  [cpf |-> Tok("c1"), nome |-> Tok("n"), email |-> Tok("e1"), data_nascimento |-> 10950,
   resp_cpf |-> None, resp_nome |-> None, resp_data_nascimento |-> None,
   resp_email |-> None, resp_telefone |-> None]

Consulta ==
  [nome |-> Tok("p1"), descricao |-> Tok("d"), valor_plano |-> 1, valor_particular |-> 2]

InitClinic ==
  /\ users = (1 :> Boss) @@ (2 :> Staff)
  /\ tokens = {BossToken, StaffToken}
  /\ patients = (1 :> Adult)
  /\ procedures = (1 :> Consulta)
  /\ appointments = NoRows
  /\ links = {}
  /\ ids = [users |-> 2, patients |-> 1, procedures |-> 1, appointments |-> 0]
  /\ last = [op |-> "none", actor |-> Anonymous, id |-> 0, data |-> NoBody,
             status |-> 0, err |-> ""]
  /\ inflight = NoRequests
  /\ iso_basic \in BOOLEAN

Ids(seq) == List([i \in DOMAIN seq |-> Num(seq[i])])

AppointmentBody(data_hora, paciente_id, procedimentos, tipo, numero_carteira) ==
  Field("data_hora", data_hora) @@ Field("paciente_id", paciente_id)
    @@ Field("procedimentos", procedimentos) @@ Field("tipo", tipo)
    @@ Field("numero_carteira", numero_carteira)

BillingCreateBodies ==
  {AppointmentBody(Tok("T1"), Num(1), p, t, c) :
     p \in {Ids(<<1>>), Ids(<<1, 2>>), Ids(<<1, 1>>), Ids(<<9>>)},
     t \in {PLANO, PARTICULAR}, c \in {Absent, Padded("w")}}

BillingUpdateBodies ==
  {AppointmentBody(Absent, Absent, p, t, c) :
     p \in {Absent, Ids(<<1>>), Ids(<<1, 2>>)},
     t \in {Absent, PLANO, PARTICULAR}, c \in {Absent, Tok("w"), Blank}}
  \cup
  {AppointmentBody(Tok("T1"), Num(1), p, t, c) :
     p \in {Ids(<<1>>), Ids(<<1, 2>>)}, t \in {PLANO, PARTICULAR}, c \in {Absent, Tok("w")}}
  \cup
  {AppointmentBody(Tok("x"), Absent, Absent, Absent, Absent),
   AppointmentBody(Tok("T2"), Num(9), Absent, Absent, Absent),
   AppointmentBody(Absent, Absent, List(<<Num(2), Tok("x")>>), Absent, Absent),
   AppointmentBody(Absent, Absent, Absent, Padded("plano"), Absent)}

ProcedureBody(nome, descricao, valor_plano, valor_particular) ==
  Field("nome", nome) @@ Field("descricao", descricao)
    @@ Field("valor_plano", valor_plano) @@ Field("valor_particular", valor_particular)

BillingProcedureCreateBodies ==
  {ProcedureBody(Tok("p2"), Tok("d"), Num(3), Tok("5")),
   ProcedureBody(Padded("p1"), Tok("d"), Num(3), Num(5)),
   ProcedureBody(Tok("p2"), Tok("d"), Num(3), Tok("x"))}

BillingProcedureUpdateBodies ==
  {ProcedureBody(Absent, Absent, Num(4), Absent),
   ProcedureBody(Absent, Absent, Tok("1"), Absent),
   ProcedureBody(Absent, Absent, Absent, Tok("x"))}

NextBilling ==
  \/ \E data \in BillingCreateBodies : CreateAppointment(StaffToken, data)
  \/ \E id \in 1..MaxAppointments, data \in BillingUpdateBodies :
       UpdateAppointment(StaffToken, id, data)
  \/ \E id \in 1..MaxAppointments : DeleteAppointment(StaffToken, id)
  \/ \E data \in BillingProcedureCreateBodies : CreateProcedure(BossToken, data)
  \/ \E id \in 1..MaxProcedures, data \in BillingProcedureUpdateBodies :
       UpdateProcedure(BossToken, id, data)

SpecBilling == InitClinic /\ [][NextBilling]_vars

(***************************************************************************)
(* SpecAccess: appointment requests from every kind of caller: the admin,  *)
(* a default user, and a caller without a token.                           *)
(***************************************************************************)
Callers == tokens \cup {Anonymous}

AccessCreateBodies ==
  {AppointmentBody(Tok("T1"), Num(1), Ids(<<1>>), PARTICULAR, Absent)}

AccessUpdateBodies ==
  {AppointmentBody(Absent, Absent, Absent, PLANO, Tok("w")),
   AppointmentBody(Tok("T2"), Absent, Ids(<<1>>), Absent, Absent),
   AppointmentBody(Absent, Absent, Ids(<<9>>), Absent, Absent)}

NextAccess ==
  \/ \E actor \in Callers, data \in AccessCreateBodies : CreateAppointment(actor, data)
  \/ \E actor \in Callers, id \in 1..MaxAppointments, data \in AccessUpdateBodies :
       UpdateAppointment(actor, id, data)
  \/ \E actor \in Callers, id \in 1..MaxAppointments : DeleteAppointment(actor, id)

SpecAccess == InitClinic /\ [][NextAccess]_vars

(***************************************************************************)
(* SpecProcedures: procedure requests from every kind of caller.           *)
(***************************************************************************)
AccessProcedureCreateBodies ==
  {ProcedureBody(Tok("p2"), Tok("d"), Num(3), Num(5)),
   ProcedureBody(Padded("p3"), Tok("d"), Tok("2"), Num(1)),
   ProcedureBody(Blank, Tok("d"), Num(3), Num(5))}

AccessProcedureUpdateBodies ==
  {ProcedureBody(Absent, Absent, Num(4), Absent),
   ProcedureBody(Tok("p3"), Absent, Absent, Absent),
   ProcedureBody(Absent, Blank, Absent, Num(7))}

NextProcedures ==
  \/ \E actor \in Callers, data \in AccessProcedureCreateBodies :
       CreateProcedure(actor, data)
  \/ \E actor \in Callers, id \in 1..MaxProcedures, data \in AccessProcedureUpdateBodies :
       UpdateProcedure(actor, id, data)
  \/ \E actor \in Callers, id \in 1..MaxProcedures : DeleteProcedure(actor, id)

SpecProcedures == InitClinic /\ [][NextProcedures]_vars

(***************************************************************************)
(* SpecIntegrity: deletions of users, patients and procedures next to the  *)
(* appointment requests that refer to them, by both logged-in users.       *)
(***************************************************************************)
SecondPatientBody == PatientBase(Tok("c2"), Tok("e2"), Tok("D-30y"))

IntegrityCreateBodies ==
  {AppointmentBody(Tok("T1"), Num(p), Ids(<<1>>), PARTICULAR, Absent) : p \in {1, 2}}

IntegrityUpdateBodies ==
  {AppointmentBody(Absent, Num(2), Absent, Absent, Absent),
   AppointmentBody(Absent, Absent, Ids(<<2>>), Absent, Absent)}

NextIntegrity ==
  \/ \E actor \in tokens, id \in 1..MaxUsers : DeleteUser(actor, id)
  \/ \E actor \in tokens, id \in 1..MaxPatients : DeletePatient(actor, id)
  \/ \E actor \in tokens, id \in 1..MaxProcedures : DeleteProcedure(actor, id)
  \/ \E actor \in tokens : CreatePatient(actor, SecondPatientBody)
  \/ \E actor \in tokens :
       CreateProcedure(actor, ProcedureBody(Tok("p2"), Tok("d"), Num(3), Num(5)))
  \/ \E actor \in tokens, data \in IntegrityCreateBodies : CreateAppointment(actor, data)
  \/ \E actor \in tokens, id \in 1..MaxAppointments, data \in IntegrityUpdateBodies :
       UpdateAppointment(actor, id, data)
  \/ \E actor \in tokens, id \in 1..MaxAppointments : DeleteAppointment(actor, id)

SpecIntegrity == InitClinic /\ [][NextIntegrity]_vars

(***************************************************************************)
(* SpecAccounts: the account requests, from an empty store.                *)
(***************************************************************************)
InitEmpty ==
  /\ users = NoRows
  /\ tokens = {}
  /\ patients = NoRows
  /\ procedures = NoRows
  /\ appointments = NoRows
  /\ links = {}
  /\ ids = [users |-> 0, patients |-> 0, procedures |-> 0, appointments |-> 0]
  /\ last = [op |-> "none", actor |-> Anonymous, id |-> 0, data |-> NoBody,
             status |-> 0, err |-> ""]
  /\ inflight = NoRequests
  /\ iso_basic \in BOOLEAN

UserBody(email, nome, tipo, senha) ==
  Field("email", email) @@ Field("nome", nome) @@ Field("tipo", tipo)
    @@ Field("senha", senha)

RegisterBodies ==
  {UserBody(Tok("u1"), Tok("n"), ADMIN, Tok("p")),
   UserBody(Tok("u2"), Tok("n"), DEFAULT, Tok("p")),
   UserBody(Tok("u2"), Tok("n"), Absent, Tok("p"))}

LoginBodies ==
  {Field("email", Tok(e)) @@ Field("senha", Tok(pw)) :
     e \in {"u1", "u2"}, pw \in {"p", "q"}}

CreateUserBodies ==
  {UserBody(Tok("u3"), Tok("n"), Absent, Tok("p")),
   UserBody(Padded("u1"), Tok("n"), ADMIN, Tok("p"))}

UpdateUserBodies == {Field("email", Tok("u3")), Field("nome", Blank)}

NextAccounts ==
  \/ \E data \in RegisterBodies : Register(data)
  \/ \E data \in LoginBodies : Login(data)
  \/ \E actor \in Callers, data \in CreateUserBodies : CreateUser(actor, data)
  \/ \E actor \in Callers, id \in 1..MaxUsers, data \in UpdateUserBodies :
       UpdateUser(actor, id, data)
  \/ \E actor \in Callers, id \in 1..MaxUsers : DeleteUser(actor, id)
  \/ \E actor \in Callers, id \in 1..MaxUsers :
       ResetPassword(actor, id, Field("senha", Tok("q")))
  \/ \E actor \in Callers :
       ChangePassword(actor, Field("senha_antiga", Tok("p")) @@ Field("senha_nova", Tok("q")))

SpecAccounts == InitEmpty /\ [][NextAccounts]_vars

(***************************************************************************)
(* SpecUnique: the requests that write a unique column (a user's email, a  *)
(* patient's cpf and email, a procedure's nome), with values already in    *)
(* use, padded or not.                                                     *)
(***************************************************************************)
UniqueUserBodies ==
  {UserBody(Tok("u3"), Tok("n"), DEFAULT, Tok("p")),
   UserBody(Padded("u1"), Tok("n"), DEFAULT, Tok("p"))}

UniqueUserUpdateBodies == {Field("email", Padded("u1")), Field("email", Tok("u3"))}

UniquePatientBodies ==
  {PatientBase(Tok("c2"), Tok("e2"), Tok("D-30y")),
   PatientBase(Padded("c1"), Tok("e2"), Tok("D-30y")),
   PatientBase(Tok("c2"), Padded("e1"), Tok("D-30y"))}

UniquePatientUpdateBodies ==
  {Field("cpf", Padded("c1")), Field("cpf", Tok("c2")), Field("email", Tok("e1")),
   Field("cpf", Tok("c3")) @@ Field("email", Tok("e2"))}

UniqueProcedureBodies ==
  {ProcedureBody(Tok("p2"), Tok("d"), Num(3), Num(5)),
   ProcedureBody(Padded("p1"), Tok("d"), Num(3), Num(5))}

UniqueProcedureUpdateBodies == {Field("nome", Tok("p1")), Field("nome", Padded("p2"))}

NextUnique ==
  \/ \E data \in UniqueUserBodies : Register(data)
  \/ \E data \in UniqueUserBodies : CreateUser(BossToken, data)
  \/ \E id \in 1..MaxUsers, data \in UniqueUserUpdateBodies :
       UpdateUser(BossToken, id, data)
  \/ \E data \in UniquePatientBodies : CreatePatient(StaffToken, data)
  \/ \E id \in 1..MaxPatients, data \in UniquePatientUpdateBodies :
       UpdatePatient(StaffToken, id, data)
  \/ \E data \in UniqueProcedureBodies : CreateProcedure(BossToken, data)
  \/ \E id \in 1..MaxProcedures, data \in UniqueProcedureUpdateBodies :
       UpdateProcedure(BossToken, id, data)

SpecUnique == InitClinic /\ [][NextUnique]_vars

(***************************************************************************)
(* SpecEdits: updates, by both logged-in users, of appointments the admin  *)
(* created, with bodies that change one field and bodies that fail after   *)
(* some field was assigned or some join rows were replaced.                *)
(***************************************************************************)
EditCreateBodies ==
  {AppointmentBody(Tok("T1"), Num(1), Ids(<<1>>), PARTICULAR, Absent),
   AppointmentBody(Tok("T1"), Num(1), Ids(<<1>>), PLANO, Tok("w"))}

EditUpdateBodies ==
  {AppointmentBody(Absent, Absent, Absent, PLANO, Absent),
   AppointmentBody(Absent, Absent, Absent, Absent, Tok("w")),
   AppointmentBody(Absent, Absent, Absent, Absent, Blank),
   AppointmentBody(Absent, Absent, Ids(<<2>>), PLANO, Absent),
   AppointmentBody(Absent, Absent, Ids(<<2, 9>>), Absent, Absent),
   AppointmentBody(Absent, Absent, List(<<Num(2), Tok("x")>>), Absent, Absent),
   AppointmentBody(Tok("T2"), Num(9), Absent, Absent, Absent)}

NextEdits ==
  \/ \E data \in EditCreateBodies : CreateAppointment(BossToken, data)
  \/ \E actor \in tokens, id \in 1..MaxAppointments, data \in EditUpdateBodies :
       UpdateAppointment(actor, id, data)
  \/ CreateProcedure(BossToken, ProcedureBody(Tok("p2"), Tok("d"), Num(3), Num(5)))
  \/ \E id \in 1..MaxProcedures :
       UpdateProcedure(BossToken, id, ProcedureBody(Absent, Absent, Num(4), Absent))

SpecEdits == InitClinic /\ [][NextEdits]_vars

(***************************************************************************)
(* SpecRace: two create_patient requests handled at the same time.         *)
(***************************************************************************)
RaceBodies ==
  {PatientBase(Tok("c1"), Tok("e1"), Tok("D-30y")),
   PatientBase(Padded("c1"), Tok("e2"), Tok("D-30y")),
   PatientBase(Tok("c2"), Tok("e2"), Tok("D-30y")),
   PatientBase(Tok("c3"), Blank, Tok("D-30y"))}

NextRace ==
  \/ \E w \in Workers, actor \in tokens, data \in RaceBodies :
       BeginCreatePatient(w, actor, data)
  \/ \E w \in Workers : CommitCreatePatient(w)

SpecRace == InitClerk /\ [][NextRace]_vars

(***************************************************************************)
(* SpecPrices: the admin's procedure requests with prices that are finite, *)
(* not finite, or no number.                                               *)
(***************************************************************************)
PriceCreateBodies ==
  {ProcedureBody(Tok("p2"), Tok("d"), vp, vq) :
     vp \in {Num(3), Tok("2"), Tok("nan"), Padded("inf"), Tok("x")},
     vq \in {Num(5), Tok("-inf")}}

PriceUpdateBodies ==
  {ProcedureBody(Absent, Absent, Tok("nan"), Absent),
   ProcedureBody(Absent, Absent, Num(Inf), Absent),
   ProcedureBody(Absent, Absent, Tok("2"), Tok("-inf")),
   ProcedureBody(Absent, Absent, Absent, Tok("x")),
   ProcedureBody(Absent, Absent, Absent, Num(1)),
   ProcedureBody(Tok("p3"), Absent, Num(3), Absent)}

NextPrices ==
  \/ \E data \in PriceCreateBodies : CreateProcedure(BossToken, data)
  \/ \E id \in 1..MaxProcedures, data \in PriceUpdateBodies :
       UpdateProcedure(BossToken, id, data)
  \/ \E id \in 1..MaxProcedures : DeleteProcedure(BossToken, id)

SpecPrices == InitClinic /\ [][NextPrices]_vars

(***************************************************************************)
(* SpecAgenda: appointments at several times of two days, and the listing  *)
(* between two bounds.                                                     *)
(***************************************************************************)
AgendaCreateBodies ==
  {AppointmentBody(Tok(t), Num(1), Ids(<<1>>), PARTICULAR, Absent) :
     t \in {"T1", "T2", "T3", "D1"}}

Bounds ==
  {Tok("D1"), Padded("D1"), Tok("D2"), Tok("T1"), Tok("T2"), Tok("B1"),
   Tok("x"), Blank, Absent}

AgendaArgs == {Field("start", s) @@ Field("end", e) : s, e \in Bounds}

NextAgenda ==
  \/ \E data \in AgendaCreateBodies : CreateAppointment(StaffToken, data)
  \/ \E id \in 1..MaxAppointments : DeleteAppointment(StaffToken, id)
  \/ \E actor \in Callers, args \in AgendaArgs : ListBetweenDates(actor, args)

SpecAgenda == InitClinic /\ [][NextAgenda]_vars

(***************************************************************************)
(* SpecLookup: look-ups of users by email while users are registered and   *)
(* removed.                                                                *)
(***************************************************************************)
LookupArgs ==
  {Field("email", e) : e \in {Tok("u1"), Tok("u2"), Padded("u3"), Tok("u4"), Blank, Absent}}

NextLookup ==
  \/ \E actor \in Callers, args \in LookupArgs : GetByEmail(actor, args)
  \/ \E t \in {ADMIN, DEFAULT} : Register(UserBody(Tok("u3"), Tok("n"), t, Tok("p")))
  \/ \E data \in LoginBodies : Login(data)
  \/ \E id \in 1..MaxUsers : DeleteUser(BossToken, id)

SpecLookup == InitClinic /\ [][NextLookup]_vars

(***************************************************************************)
(* Properties.                                                             *)
(***************************************************************************)
GuardianColumns ==
  {"resp_cpf", "resp_nome", "resp_data_nascimento", "resp_email", "resp_telefone"}

IsMinor(p) == Age(p.data_nascimento) < 18

HasFullGuardian(p) == \A c \in GuardianColumns : p[c] # None

\* C2: with today's date fixed, every stored patient whose computed age is
\* below 18 has all five guardian fields non-null and a guardian whose
\* computed age is at least 18.
C2_MinorsHaveAdultGuardian ==
  \A i \in DOMAIN patients :
    IsMinor(patients[i]) =>
      /\ HasFullGuardian(patients[i])
      /\ Age(patients[i].resp_data_nascimento.n) >= 18

\* the base fields of a create_patient body are usable: trimmed non-empty
\* texts, a birth date that parses, cpf and email not yet in use
BaseFieldsValid(data, rows) ==
  /\ \A f \in Range(PatientRequired) : is_valid_string(Get(data, f))
  /\ parse_date(Cleaned(Get(data, "data_nascimento"))).ok
  /\ ~PatientWith(rows, "cpf", Cleaned(Get(data, "cpf")))
  /\ ~PatientWith(rows, "email", Cleaned(Get(data, "email")))

\* all five guardian fields supplied non-empty, the guardian's birth date
\* parses and the guardian is of age
GuardianSupplied(data) ==
  /\ \A f \in Range(GuardianFields) : Truthy(Get(data, f)) /\ Cleaned(Get(data, f)) # Str(<<>>)
  /\ parse_date(Cleaned(Get(data, "resp_data_nascimento"))).ok
  /\ Age(parse_date(Cleaned(Get(data, "resp_data_nascimento"))).days) >= 18

BodyAge(data) == Age(parse_date(Cleaned(Get(data, "data_nascimento"))).days)

\* C3: create_patient with otherwise valid fields: under 18 it answers 201
\* exactly when the guardian is fully supplied and of age, and then stores the
\* five guardian fields; every other under-18 body gets 400 and no row; from
\* 18 on it answers 201 and stores no guardian field.
C3_CreatePatientGuardianRule ==
  [][(last'.op = "create_patient" /\ BaseFieldsValid(last'.data, patients)) =>
       LET d == last'.data
           new == patients'[ids'.patients]
       IN
       IF BodyAge(d) >= 18
         THEN /\ last'.status = 201
              /\ DOMAIN patients' = DOMAIN patients \cup {ids'.patients}
              /\ \A c \in GuardianColumns : new[c] = None
       ELSE IF GuardianSupplied(d)
         THEN /\ last'.status = 201
              /\ DOMAIN patients' = DOMAIN patients \cup {ids'.patients}
              /\ HasFullGuardian(new)
       ELSE /\ last'.status = 400
            /\ patients' = patients]_vars

RECURSIVE SumOver(_, _)
SumOver(S, col) ==
  IF S = {} THEN 0
  ELSE LET l == CHOOSE x \in S : TRUE IN
       procedures[l.procedimento_id][col] + SumOver(S \ {l}, col)

\* the total the linked procedures' current prices give appointment a
PriceNow(a) ==
  SumOver(LinksOf(links, a),
          IF appointments[a].tipo = PLANO THEN "valor_plano" ELSE "valor_particular")

\* C1: each stored appointment's valor_total equals the sum, over the
\* procedures currently linked to it, of their current valor_plano when its
\* tipo is plano and of their current valor_particular otherwise.
C1_ValorTotalIsCurrentSum ==
  \A a \in DOMAIN appointments : appointments[a].valor_total = PriceNow(a)

\* C4: each stored appointment has a non-empty numero_carteira exactly when
\* its tipo is plano; with tipo particular numero_carteira is null.
C4_CarteiraIffPlano ==
  \A a \in DOMAIN appointments :
    /\ Truthy(appointments[a].numero_carteira) <=> appointments[a].tipo = PLANO
    /\ appointments[a].tipo = PARTICULAR => appointments[a].numero_carteira = None

\* the body repeats what appointment ap and its join rows hold
RepeatsCurrent(data, ap, lks) ==
  LET res == ResolveProcedures(Get(data, "procedimentos").s, 1, <<>>) IN
  /\ parse_datetime(Cleaned(Get(data, "data_hora"))).ok
  /\ parse_datetime(Cleaned(Get(data, "data_hora"))).at = ap.data_hora
  /\ Get(data, "paciente_id") = Num(ap.paciente_id)
  /\ Get(data, "procedimentos").t = "list"
  /\ res.status = 0
  /\ ~HasDuplicate(res.pids)
  /\ Range(res.pids) = {l.procedimento_id : l \in lks}
  /\ Get(data, "tipo") = ap.tipo
  /\ Get(data, "numero_carteira") = ap.numero_carteira

\* C10: an authorized update_appointment whose body repeats the
\* appointment's current data_hora, paciente_id, procedimentos, tipo and
\* numero_carteira leaves its valor_total and its linked procedures unchanged.
C10_RepeatUpdateChangesNothing ==
  [][(/\ last'.op = "update_appointment"
      /\ last'.id \in DOMAIN appointments
      /\ MayEdit(last'.actor, appointments[last'.id])
      /\ RepeatsCurrent(last'.data, appointments[last'.id], LinksOf(links, last'.id)))
     => /\ last'.status = 200
        /\ appointments'[last'.id].valor_total = appointments[last'.id].valor_total
        /\ LinksOf(links', last'.id) = LinksOf(links, last'.id)]_vars

\* appointment a is gone or differs, or its join rows differ, after the step
Touched(a) ==
  \/ a \notin DOMAIN appointments'
  \/ appointments'[a] # appointments[a]
  \/ LinksOf(links', a) # LinksOf(links, a)

Outsider(actor, ap) ==
  actor # Anonymous /\ actor.tipo # ADMIN /\ actor.id # ap.usuario_id

\* C7: update_appointment and delete_appointment on an existing appointment
\* by an actor who is neither admin nor its creator answer 403 and leave the
\* appointment, its join rows and its valor_total as they were; whatever
\* changes or removes an appointment was requested by an admin or its creator.
C7_OnlyAdminOrCreatorEdits ==
  [][/\ (/\ last'.op \in {"update_appointment", "delete_appointment"}
         /\ last'.id \in DOMAIN appointments
         /\ Outsider(last'.actor, appointments[last'.id]))
        => (last'.status = 403 /\ appointments' = appointments /\ links' = links)
     /\ \A a \in DOMAIN appointments :
          Touched(a) =>
            /\ last'.op \in {"update_appointment", "delete_appointment"}
            /\ last'.id = a
            /\ (IsAdmin(last'.actor) \/ last'.actor.id = appointments[a].usuario_id)]_vars

\* an outsider was refused on an appointment that is still stored
C7_Witness ==
  /\ last.op \in {"update_appointment", "delete_appointment"}
  /\ last.status = 403
  /\ last.id \in DOMAIN appointments
  /\ Outsider(last.actor, appointments[last.id])

\* C9: create_procedure, update_procedure and delete_procedure requested by
\* an authenticated actor who is not admin answer 403 and leave the set of
\* procedures and every procedure's fields unchanged, whatever the body.
C9_ProceduresAdminOnly ==
  [][(/\ last'.op \in {"create_procedure", "update_procedure", "delete_procedure"}
      /\ last'.actor # Anonymous
      /\ last'.actor.tipo # ADMIN)
     => (last'.status = 403 /\ procedures' = procedures)]_vars

\* a default user was refused an update of a stored procedure, with a body
\* the admin's request would have applied
C9_Witness ==
  /\ last.op = "update_procedure"
  /\ last.actor = StaffToken
  /\ last.status = 403
  /\ last.id \in DOMAIN procedures
  /\ update_procedure(BossToken, last.id, last.data).status = 200

UniqueRows ==
  /\ \A i, j \in DOMAIN patients :
       i # j => /\ patients[i].cpf # patients[j].cpf
                /\ patients[i].email # patients[j].email
  /\ \A i, j \in DOMAIN procedures : i # j => procedures[i].nome # procedures[j].nome
  /\ \A i, j \in DOMAIN users : i # j => users[i].email # users[j].email

\* the trimmed value of field f of the body of the last request is stored in
\* column f of some row
InUse(rows, f) ==
  /\ IsStr(Get(last'.data, f))
  /\ \E i \in DOMAIN rows : rows[i][f] = Str(Strip(Get(last'.data, f).s))

UserFieldsValid(data) ==
  /\ \A f \in {"email", "nome", "tipo", "senha"} : is_valid_string(Get(data, f))
  /\ Str(Strip(Get(data, "tipo").s)) \in {ADMIN, DEFAULT}

\* C5: under register, create_user, update_user, create_patient,
\* update_patient, create_procedure and update_procedure no two stored
\* patients share a cpf or an email, no two procedures a nome, no two users
\* an email; a create request whose trimmed cpf, email or nome is in use
\* answers 400 and adds no row, and the error is the duplicate error when
\* the body is otherwise valid.
C5_UniqueKeys ==
  [][/\ UniqueRows'
     /\ (last'.op = "create_patient"
           /\ (InUse(patients, "cpf") \/ InUse(patients, "email")))
        => /\ last'.status = 400 /\ patients' = patients
           /\ (\A f \in Range(PatientRequired) : is_valid_string(Get(last'.data, f)))
                => last'.err \in {"dup_cpf", "dup_email"}
     /\ (last'.op = "create_procedure" /\ IsAdmin(last'.actor)
           /\ InUse(procedures, "nome"))
        => /\ last'.status = 400 /\ procedures' = procedures
           /\ (/\ is_valid_string(Get(last'.data, "descricao"))
               /\ Get(last'.data, "valor_plano") # None
               /\ Get(last'.data, "valor_particular") # None)
                => last'.err = "dup_nome"
     /\ (/\ \/ last'.op = "register"
            \/ last'.op = "create_user" /\ IsAdmin(last'.actor)
         /\ InUse(users, "email"))
        => /\ last'.status = 400 /\ users' = users
           /\ UserFieldsValid(last'.data) => last'.err = "dup_email"]_vars

\* a create request carrying a padded key that is in use was refused as a
\* duplicate, in a store that holds a row created by an earlier request
C5_Witness ==
  /\ last.op \in {"create_patient", "create_procedure", "create_user", "register"}
  /\ last.err \in {"dup_cpf", "dup_email", "dup_nome"}
  /\ \E f \in {"cpf", "email", "nome"} :
       /\ IsStr(Get(last.data, f))
       /\ Get(last.data, f).s # Strip(Get(last.data, f).s)
  /\ ids.users > 2 /\ ids.patients > 1 /\ ids.procedures > 1

RefIntegrity ==
  /\ \A a \in DOMAIN appointments :
       /\ appointments[a].paciente_id \in DOMAIN patients
       /\ appointments[a].usuario_id \in DOMAIN users
  /\ \A l \in links : l.procedimento_id \in DOMAIN procedures

\* C6: delete_patient, delete_user and delete_procedure, requested by an
\* actor allowed to delete, answer 400 and delete nothing when the target is
\* stored and referenced by an appointment (paciente_id, usuario_id) or by a join row
\* (procedimento_id); and after every request made with a valid token every
\* appointment's paciente_id and usuario_id name a stored patient and a
\* stored user, and every join row's procedimento_id a stored procedure.
C6_DeleteGuardsKeepReferences ==
  [][/\ (/\ last'.op = "delete_patient" /\ last'.id \in DOMAIN patients
         /\ \E a \in DOMAIN appointments : appointments[a].paciente_id = last'.id)
        => (last'.status = 400 /\ patients' = patients)
     /\ (/\ last'.op = "delete_user" /\ IsAdmin(last'.actor)
         /\ last'.id \in DOMAIN users
         /\ \E a \in DOMAIN appointments : appointments[a].usuario_id = last'.id)
        => (last'.status = 400 /\ users' = users)
     /\ (/\ last'.op = "delete_procedure" /\ IsAdmin(last'.actor)
         /\ last'.id \in DOMAIN procedures
         /\ \E l \in links : l.procedimento_id = last'.id)
        => (last'.status = 400 /\ procedures' = procedures)
     /\ RefIntegrity']_vars

\* C8: a request that adds a user row, or that makes a stored user an admin,
\* carries the token of an admin; no unauthenticated caller and no default
\* user brings a user with tipo admin into existence.
C8_OnlyAdminCreatesUsers ==
  [][(\E u \in DOMAIN users' :
        \/ u \notin DOMAIN users
        \/ users'[u].tipo = ADMIN /\ users[u].tipo # ADMIN)
     => (last'.actor # Anonymous /\ IsAdmin(last'.actor))]_vars

\* the last request is an authorized update_appointment of a stored
\* particular appointment whose body holds tipo = plano and nothing else
TipoOnlyToPlano ==
  /\ last'.op = "update_appointment"
  /\ last'.id \in DOMAIN appointments
  /\ appointments[last'.id].tipo = PARTICULAR
  /\ MayEdit(last'.actor, appointments[last'.id])
  /\ DOMAIN last'.data = {"tipo"}
  /\ last'.data["tipo"] = PLANO

\* the update succeeded: tipo is plano, the join rows are kept and
\* valor_total is the sum of valor_plano over the linked procedures
TipoOnlyApplied ==
  /\ last'.status = 200
  /\ appointments'[last'.id].tipo = PLANO
  /\ LinksOf(links', last'.id) = LinksOf(links, last'.id)
  /\ appointments'[last'.id].valor_total
       = SumOver(LinksOf(links, last'.id), "valor_plano")

\* C11 as stated: for a stored particular appointment, an authorized
\* update_appointment whose body holds only tipo = plano succeeds, sets tipo
\* to plano, keeps the linked procedures and sets valor_total to the sum of
\* their valor_plano.
C11_TipoOnlyUpdateSucceeds ==
  [][TipoOnlyToPlano => TipoOnlyApplied]_vars

\* C11 amended: that update succeeds, with tipo plano, the linked procedures
\* kept and valor_total the sum of their valor_plano, when the appointment
\* stores a non-empty numero_carteira; when it stores none the answer is 400
\* and the appointment and its join rows stay as they were.
C11_TipoOnlyUpdateNeedsCarteira ==
  [][TipoOnlyToPlano =>
       IF Truthy(appointments[last'.id].numero_carteira)
         THEN TipoOnlyApplied
         ELSE /\ last'.status = 400
              /\ appointments' = appointments
              /\ links' = links]_vars

\* a tipo-only update turned a particular appointment into a plano one and
\* its valor_total now differs from the particular total of its procedures
C11_Witness ==
  /\ last.op = "update_appointment"
  /\ last.status = 200
  /\ DOMAIN last.data = {"tipo"}
  /\ last.id \in DOMAIN appointments
  /\ appointments[last.id].tipo = PLANO
  /\ appointments[last.id].valor_total = SumOver(LinksOf(links, last.id), "valor_plano")
  /\ appointments[last.id].valor_total
       # SumOver(LinksOf(links, last.id), "valor_particular")

\* C12: an update_appointment answered 400, 403 or 404 leaves every
\* appointment's data_hora, paciente_id, tipo, numero_carteira and
\* valor_total and every join row as they were before the request, also when
\* it failed after fields were assigned or join rows were replaced.
C12_FailedUpdateChangesNothing ==
  [][(last'.op = "update_appointment" /\ last'.status \in {400, 403, 404})
     => (appointments' = appointments /\ links' = links)]_vars

\* an update failed on its second procedure id, after the old join rows were
\* deleted and a new one was added in the session
C12_Witness ==
  /\ last.op = "update_appointment"
  /\ last.status \in {400, 404}
  /\ last.err = "bad_procedure"
  /\ last.id \in DOMAIN appointments
  /\ update_appointment(last.actor, last.id, last.data).rows.links # links

\* C13: when create_patient requests with the same cpf are handled at the
\* same time and both pass the duplicate lookup before either commits, no
\* two stored patients share a cpf, and the commit of a request that passed
\* the lookup ends in success (201) or in the duplicate error (400), so the
\* loser of the race is answered with the duplicate error.
C13_RaceSurfacesAsConflict ==
  [][/\ \A i, j \in DOMAIN patients' :
          i # j => patients'[i].cpf # patients'[j].cpf
     /\ \A w \in Workers :
          (inflight[w].pc = "add" /\ inflight'[w].pc = "done")
            => \/ inflight'[w].status = 201
               \/ /\ inflight'[w].status = 400
                  /\ inflight'[w].err \in {"dup_cpf", "dup_email"}]_vars

\* the body of the last request supplies a price that float() refuses or
\* turns into NaN, +Infinity or -Infinity
BadPriceSupplied ==
  \E f \in {"valor_plano", "valor_particular"} :
    /\ f \in DOMAIN last'.data
    /\ last'.data[f] # None
    /\ ~ToNumber(last'.data[f]).ok \/ ~IsFinite(ToNumber(last'.data[f]).val)

\* C14: every stored procedure's valor_plano and valor_particular is a
\* finite number; create_procedure and update_procedure answer 400 and store
\* nothing when a supplied price is no number or is NaN, +Infinity or
\* -Infinity.
C14_PricesAreFinite ==
  [][/\ \A i \in DOMAIN procedures' :
          /\ IsFinite(procedures'[i].valor_plano)
          /\ IsFinite(procedures'[i].valor_particular)
     /\ (/\ IsAdmin(last'.actor)
         /\ \/ last'.op = "create_procedure"
            \/ last'.op = "update_procedure" /\ last'.id \in DOMAIN procedures
         /\ BadPriceSupplied)
        => (last'.status = 400 /\ procedures' = procedures)]_vars

\* the value is a non-empty text that datetime.fromisoformat parses
IsoBound(v) == is_valid_string(v) /\ parse_datetime(Str(Strip(v.s))).ok

\* the text is a date without a time
DateOnly(tok) == tok \in {"D1", "D2", "B1"}

\* end', the end bound of the claim
EndBound(v) ==
  LET tok == Strip(v.s)[1] IN
  IF DateOnly(tok) THEN EndOfDay(Instant(tok)) ELSE Instant(tok)

\* C15: list_between_dates with non-empty ISO-parseable start and end
\* answers 200 with exactly the stored appointments whose data_hora lies
\* between start and end', in ascending order of data_hora, end' being end at
\* 23:59:59 when end is a date-only text and end itself otherwise; with a
\* missing, empty or unparseable bound it answers 400.
C15_ListBetweenDates ==
  [][(last'.op = "list_between_dates" /\ last'.actor # Anonymous) =>
       LET start == Get(last'.data, "start")
           end == Get(last'.data, "end")
           items == last'.items
       IN
       IF IsoBound(start) /\ IsoBound(end)
         THEN /\ last'.status = 200
              /\ {items[k] : k \in DOMAIN items}
                   = {a \in DOMAIN appointments :
                        /\ Instant(Strip(start.s)[1]) <= appointments[a].data_hora
                        /\ appointments[a].data_hora <= EndBound(end)}
              /\ \A k, l \in DOMAIN items :
                   /\ k < l => appointments[items[k]].data_hora
                                 <= appointments[items[l]].data_hora
                   /\ k # l => items[k] # items[l]
         ELSE last'.status = 400]_vars

\* the last request is a look-up by a stored user who is not admin, for a
\* non-empty email that is not that user's own
LookupOfAnother ==
  /\ last.op = "get_by_email"
  /\ last.actor # Anonymous
  /\ ~IsAdmin(last.actor)
  /\ last.actor.id \in DOMAIN users
  /\ is_valid_string(Get(last.data, "email"))
  /\ users[last.actor.id].email # Str(Strip(Get(last.data, "email").s))

\* C16: the answer a user who is not admin gets when looking up an email
\* that is not their own is 403 and is the same in the store where another
\* user holds that email and in the store that differs only by that user's
\* absence, so it does not tell which emails are registered.
C16_LookupDoesNotLeak ==
  LookupOfAnother =>
    /\ last.status = 403
    /\ \A u \in DOMAIN users \ {last.actor.id} :
         get_by_email_in(Remove(users, u), last.actor, last.data).status = last.status
    /\ get_by_email_in(Insert(users, ids.users + 1,
                              [Staff EXCEPT !.email = Str(Strip(Get(last.data, "email").s))]),
                       last.actor, last.data).status = last.status

\* the last request is an admin's update_procedure of a stored procedure
\* with a text as nome
RenameRequest ==
  /\ last'.op = "update_procedure"
  /\ IsAdmin(last'.actor)
  /\ last'.id \in DOMAIN procedures
  /\ "nome" \in DOMAIN last'.data
  /\ IsStr(last'.data["nome"])

\* C17: an admin's update_procedure whose nome, trimmed, equals the
\* procedure's current nome is not answered with the duplicate-name error
\* and leaves nome unchanged, with 200 when nome is all the body holds; the
\* duplicate-name error is answered only when the trimmed nome differs from
\* the current one and another procedure holds it.
C17_SameNameIsNoDuplicate ==
  [][RenameRequest =>
       LET new_nome == Str(Strip(last'.data["nome"].s))
           current == procedures[last'.id].nome
       IN
       /\ new_nome = current
            => /\ last'.err # "dup_nome"
               /\ procedures'[last'.id].nome = current
               /\ DOMAIN last'.data = {"nome"} => last'.status = 200
       /\ last'.err = "dup_nome"
            => /\ new_nome # current
               /\ \E j \in DOMAIN procedures \ {last'.id} :
                    procedures[j].nome = new_nome]_vars

(***************************************************************************)
(* Passwords: the four requests that set a password, and the two that     *)
(* check one, with passwords that carry surrounding whitespace            *)
(***************************************************************************)
Passwords == {Tok("q"), Padded("q")}

NextPasswords ==
  \/ \E senha \in Passwords :
       Register(UserBody(Tok("u3"), Tok("n"), DEFAULT, senha))
  \/ \E senha \in Passwords :
       CreateUser(BossToken, UserBody(Tok("u3"), Tok("n"), Absent, senha))
  \/ \E id \in 1..MaxUsers, senha \in Passwords :
       ResetPassword(BossToken, id, Field("senha", senha))
  \/ \E actor \in tokens, old \in Passwords \cup {Tok("p")},
        new \in Passwords :
       ChangePassword(actor, Field("senha_antiga", old)
                               @@ Field("senha_nova", new))
  \/ \E e \in {"u2", "u3"}, senha \in Passwords \cup {Tok("p")} :
       Login(Field("email", Tok(e)) @@ Field("senha", senha))

SpecPasswords == InitClinic /\ [][NextPasswords]_vars

\* the last request set a password and was answered with success
PasswordWasSet ==
  /\ last.op \in {"register", "create_user", "reset_password",
                  "change_password"}
  /\ last.status \in {200, 201}

\* the password string S the last request carried
PasswordSent ==
  IF last.op = "change_password" THEN last.data["senha_nova"]
  ELSE last.data["senha"]

\* the id of the user whose password the last request set
PasswordOwner ==
  IF last.op = "reset_password" THEN last.id
  ELSE IF last.op = "change_password" THEN last.actor.id
  ELSE CHOOSE i \in DOMAIN users : users[i].email = Cleaned(last.data["email"])

\* C18: after register, create_user, reset_password or change_password has
\* set a user's password to an accepted string S, a following login with
\* that user's email and senha = S is answered 200, and a following
\* change_password by that user with senha_antiga = S is accepted; also
\* when S has leading or trailing whitespace.
C18_PasswordRoundTrip ==
  PasswordWasSet =>
    LET S == PasswordSent
        id == PasswordOwner
        user == users[id]
    IN
    /\ login(Field("email", user.email) @@ Field("senha", S)).status = 200
    /\ change_password(generate_token(id, user.tipo),
                       Field("senha_antiga", S)
                         @@ Field("senha_nova", Tok("p"))).status = 200

\* the round trip for passwords sent without surrounding whitespace
C18_UnpaddedRoundTrip ==
  (PasswordWasSet /\ PasswordSent = Cleaned(PasswordSent)) =>
    LET S == PasswordSent
        id == PasswordOwner
        user == users[id]
    IN
    /\ login(Field("email", user.email) @@ Field("senha", S)).status = 200
    /\ change_password(generate_token(id, user.tipo),
                       Field("senha_antiga", S)
                         @@ Field("senha_nova", Tok("p"))).status = 200

====
